---- MODULE Spec2Model ----
(***************************************************************************)
(* Model of the StaticWebsite construct (lib/index.ts).  The constructor   *)
(* is a straight-line composition of seven resource-builder calls; each    *)
(* call is one action, pc is the constructor's position, children is the   *)
(* construct tree below the StaticWebsite scope (id -> descriptor), and    *)
(* the remaining variables are the constructor's fields and locals, which  *)
(* hold construct ids.  Strings the code computes on are sequences of      *)
(* characters.                                                             *)
(***************************************************************************)
EXTENDS Integers, Sequences, FiniteSets, TLC

VARIABLES props, region, pc, children, log,
          bucket, bucketDeployment, hostedZone, certificate,
          originAccessIdentity, distribution, dnsRecord

vars == <<props, region, pc, children, log,
          bucket, bucketDeployment, hostedZone, certificate,
          originAccessIdentity, distribution, dnsRecord>>

(***************************************************************************)
(* Bounds and input alphabets                                              *)
(***************************************************************************)
MaxLen == 4
MaxZoneLen == 7

LT == "\n"
Dot == "."
Alphabet == {"a", Dot, LT}

Str(n) == UNION {[1..k -> Alphabet] : k \in 0..n}

\* an optional property is {} (undefined) or {v}
undefined == {}
Opt(S) == {undefined} \cup {{v} : v \in S}
Value(o) == CHOOSE v \in o : TRUE

\* a field or local that holds no construct yet
NoRef == "undefined"

Paths == {<<>>, <<"d">>}
IndexDocuments == {<<>>, <<"i">>}
BucketNames == {<<>>, <<"b">>}
WebACLIds == {<<"w">>}
Regions == {"eu-west-1", "us-east-1"}

StaticWebsiteProps(n) ==
    [domainName : Str(n),
     websiteDistPath : Opt(Paths),
     indexDocument : Opt(IndexDocuments),
     bucketName : Opt(BucketNames),
     webACLId : Opt(WebACLIds)]

(***************************************************************************)
(* String literals of the source                                           *)
(***************************************************************************)
WebsitePrefix == <<"w", "e", "b", "s", "i", "t", "e", ".">>
IndexHtml == <<"i", "n", "d", "e", "x", ".", "h", "t", "m", "l">>
OaiCommentPrefix == <<"O", "A", "I", " ", "f", "o", "r", " ">>
Slash == <<"/">>

(***************************************************************************)
(* Destructuring of props: a default applies only to an undefined value    *)
(***************************************************************************)
bucketNameOrDefault(p) ==
    IF p.bucketName = undefined \/ Value(p.bucketName) = <<>>
    THEN WebsitePrefix \o p.domainName
    ELSE Value(p.bucketName)

bucketName(p) ==
    IF p.bucketName = undefined
    THEN WebsitePrefix \o p.domainName
    ELSE Value(p.bucketName)

indexDocument(p) ==
    IF p.indexDocument = undefined THEN IndexHtml ELSE Value(p.indexDocument)

\* if (websiteDistPath): undefined and the empty string are falsy
Truthy(o) == o # undefined /\ Value(o) # <<>>

(***************************************************************************)
(* domainName.replace(re, "$1"), re being: a lazy run of ".", a literal    *)
(* dot, then a greedy run of "." captured as group 1.                      *)
(* "." matches any character but a line terminator.  A match starting at i *)
(* takes the lazy run up to the first dot j reachable from i without       *)
(* crossing a line terminator, then the greedy group up to the next line   *)
(* terminator or the end.  replace() rewrites the leftmost match only.     *)
(***************************************************************************)
Min(S) == CHOOSE x \in S : \A y \in S : x <= y
Max(S) == CHOOSE x \in S : \A y \in S : y <= x

IsLineTerminator(c) == c = LT

DotsFrom(s, i) ==
    {j \in i..Len(s) : /\ s[j] = Dot
                       /\ \A k \in i..(j - 1) : ~IsLineTerminator(s[k])}

GroupEnd(s, j) ==
    Max({e \in j..Len(s) : \A k \in (j + 1)..e : ~IsLineTerminator(s[k])})

Replace(s, i, j) ==
    SubSeq(s, 1, i - 1) \o SubSeq(s, j + 1, GroupEnd(s, j))
                        \o SubSeq(s, GroupEnd(s, j) + 1, Len(s))

hostedZoneDomainNameGreedy(s) ==
    LET starts == {i \in 1..Len(s) : DotsFrom(s, i) # {}}
    IN  IF starts = {} THEN s
        ELSE Replace(s, Min(starts), Max(DotsFrom(s, Min(starts))))

hostedZoneDomainName(s) ==
    LET starts == {i \in 1..Len(s) : DotsFrom(s, i) # {}}
    IN  IF starts = {} THEN s
        ELSE Replace(s, Min(starts), Min(DotsFrom(s, Min(starts))))

(***************************************************************************)
(* Descriptors: the props each builder passes to the resource it creates   *)
(***************************************************************************)
Duration(amount, unit) == [amount |-> amount, unit |-> unit]

BLOCK_ACLS ==
    [blockPublicAcls |-> TRUE, blockPublicPolicy |-> FALSE,
     ignorePublicAcls |-> TRUE, restrictPublicBuckets |-> FALSE]

BLOCK_ALL ==
    [blockPublicAcls |-> TRUE, blockPublicPolicy |-> TRUE,
     ignorePublicAcls |-> TRUE, restrictPublicBuckets |-> TRUE]

Bucket(websiteIndexDocument, name) ==
    [type |-> "Bucket",
     websiteIndexDocument |-> websiteIndexDocument,
     bucketName |-> name,
     removalPolicy |-> "DESTROY",
     blockPublicAccess |-> BLOCK_ALL,
     grants |-> {}]

BucketDeployment(websiteDistPath, destinationBucket) ==
    [type |-> "BucketDeployment",
     sources |-> <<websiteDistPath>>,
     destinationBucket |-> destinationBucket,
     cacheControl |-> <<"no-cache">>]

OriginAccessIdentity(destinationBucketName) ==
    [type |-> "OriginAccessIdentity",
     comment |-> OaiCommentPrefix \o destinationBucketName]

grantPublicAccess(b, principal) ==
    [b EXCEPT !.grants = @ \cup {[principal |-> "*", actions |-> "read"]}]

grantReadWrite(b, principal) ==
    [b EXCEPT !.grants = @ \cup {[principal |-> principal, actions |-> "readwrite"]}]

grantRead(b, principal) ==
    [b EXCEPT !.grants = @ \cup {[principal |-> principal, actions |-> "read"]}]

CloudFrontWebDistributionNoSlash(destinationBucket, oai, certificatArn, domainName, websiteIndexDocument, webACLId) ==
    [type |-> "CloudFrontWebDistribution",
     originConfigs |-> <<[s3OriginSource |->
                             [s3BucketSource |-> destinationBucket,
                              originAccessIdentity |-> oai],
                          behaviors |-> <<[isDefaultBehavior |-> TRUE,
                                           defaultTtl |-> Duration(60, "days")]>>]>>,
     webACLId |-> webACLId,
     aliasConfiguration |-> [acmCertRef |-> certificatArn,
                             names |-> <<domainName>>],
     defaultRootObject |-> websiteIndexDocument,
     errorConfigurations |-> <<[errorCode |-> 404,
                                errorCachingMinTtl |-> 300,
                                responseCode |-> 200,
                                responsePagePath |-> websiteIndexDocument]>>]

CloudFrontWebDistribution(destinationBucket, oai, certificatArn, domainName, websiteIndexDocument, webACLId) ==
    [type |-> "CloudFrontWebDistribution",
     originConfigs |-> <<[s3OriginSource |->
                             [s3BucketSource |-> destinationBucket,
                              originAccessIdentity |-> oai],
                          behaviors |-> <<[isDefaultBehavior |-> TRUE,
                                           defaultTtl |-> Duration(60, "days")]>>]>>,
     webACLId |-> webACLId,
     aliasConfiguration |-> [acmCertRef |-> certificatArn,
                             names |-> <<domainName>>],
     defaultRootObject |-> websiteIndexDocument,
     errorConfigurations |-> <<[errorCode |-> 404,
                                errorCachingMinTtl |-> 300,
                                responseCode |-> 200,
                                responsePagePath |-> Slash \o websiteIndexDocument]>>]

DnsValidatedCertificateInStackRegion(domainName, zone) ==
    [type |-> "DnsValidatedCertificate",
     domainName |-> domainName,
     hostedZone |-> zone,
     region |-> region]

DnsValidatedCertificate(domainName, zone) ==
    [type |-> "DnsValidatedCertificate",
     domainName |-> domainName,
     hostedZone |-> zone,
     region |-> "us-east-1"]

HostedZone(domainName) ==
    [type |-> "HostedZone",
     domainName |-> hostedZoneDomainName(domainName)]

ARecordInZoneApex(zone, domainName, dist) ==
    [type |-> "ARecord",
     recordType |-> "A",
     target |-> [alias |-> dist],
     recordName |-> hostedZoneDomainName(domainName),
     ttl |-> Duration(1, "minutes"),
     zone |-> zone]

ARecord(zone, domainName, dist) ==
    [type |-> "ARecord",
     recordType |-> "A",
     target |-> [alias |-> dist],
     recordName |-> domainName,
     ttl |-> Duration(1, "minutes"),
     zone |-> zone]

\* new X(this, id, {...}) adds the descriptor to the scope under id
Construct(id, d) == (id :> d) @@ children

(***************************************************************************)
(* Statement order of the constructor                                      *)
(***************************************************************************)
ThenCertificateFirst(step, p) ==
    CASE step = "createBucket" ->
            IF Truthy(p.websiteDistPath) THEN "createBucketDeployment"
                                         ELSE "createCertificate"
      [] step = "createBucketDeployment" -> "createCertificate"
      [] step = "createCertificate" -> "lookupHostedZone"
      [] step = "lookupHostedZone" -> "createOriginAccessIdentity"
      [] step = "createOriginAccessIdentity" -> "createCloudFrontWebDistribution"
      [] step = "createCloudFrontWebDistribution" -> "createARecord"
      [] step = "createARecord" -> "done"

ThenIfDefined(step, p) ==
    CASE step = "createBucket" ->
            IF p.websiteDistPath # undefined THEN "createBucketDeployment"
                                             ELSE "lookupHostedZone"
      [] step = "createBucketDeployment" -> "lookupHostedZone"
      [] step = "lookupHostedZone" -> "createCertificate"
      [] step = "createCertificate" -> "createOriginAccessIdentity"
      [] step = "createOriginAccessIdentity" -> "createCloudFrontWebDistribution"
      [] step = "createCloudFrontWebDistribution" -> "createARecord"
      [] step = "createARecord" -> "done"

Then(step, p) ==
    CASE step = "createBucket" ->
            IF Truthy(p.websiteDistPath) THEN "createBucketDeployment"
                                         ELSE "lookupHostedZone"
      [] step = "createBucketDeployment" -> "lookupHostedZone"
      [] step = "lookupHostedZone" -> "createCertificate"
      [] step = "createCertificate" -> "createOriginAccessIdentity"
      [] step = "createOriginAccessIdentity" -> "createCloudFrontWebDistribution"
      [] step = "createCloudFrontWebDistribution" -> "createARecord"
      [] step = "createARecord" -> "done"

(***************************************************************************)
(* Initial states                                                          *)
(***************************************************************************)
Fresh ==
    /\ pc = "createBucket"
    /\ children = <<>>
    /\ log = <<>>
    /\ bucket = NoRef
    /\ bucketDeployment = NoRef
    /\ hostedZone = NoRef
    /\ certificate = NoRef
    /\ originAccessIdentity = NoRef
    /\ distribution = NoRef
    /\ dnsRecord = NoRef

Init ==
    /\ props \in StaticWebsiteProps(MaxLen)
    /\ region \in Regions
    /\ Fresh

(***************************************************************************)
(* The builder calls                                                       *)
(***************************************************************************)
createBucket ==
    /\ pc = "createBucket"
    /\ children' = Construct("S3Bucket",
                             Bucket(indexDocument(props), bucketName(props)))
    /\ log' = Append(log, "S3Bucket")
    /\ bucket' = "S3Bucket"
    /\ pc' = Then(pc, props)
    /\ UNCHANGED <<props, region, bucketDeployment, hostedZone, certificate,
                   originAccessIdentity, distribution, dnsRecord>>

createBucketDeployment ==
    /\ pc = "createBucketDeployment"
    /\ children' = Construct("BucketDeployment",
                             BucketDeployment(Value(props.websiteDistPath), bucket))
    /\ log' = Append(log, "BucketDeployment")
    /\ bucketDeployment' = "BucketDeployment"
    /\ pc' = Then(pc, props)
    /\ UNCHANGED <<props, region, bucket, hostedZone, certificate,
                   originAccessIdentity, distribution, dnsRecord>>

lookupHostedZone ==
    /\ pc = "lookupHostedZone"
    /\ children' = Construct("HostedZone", HostedZone(props.domainName))
    /\ log' = Append(log, "HostedZone")
    /\ hostedZone' = "HostedZone"
    /\ pc' = Then(pc, props)
    /\ UNCHANGED <<props, region, bucket, bucketDeployment, certificate,
                   originAccessIdentity, distribution, dnsRecord>>

createCertificate ==
    /\ pc = "createCertificate"
    /\ children' = Construct("SslCertificate",
                             DnsValidatedCertificate(props.domainName, hostedZone))
    /\ log' = Append(log, "SslCertificate")
    /\ certificate' = "SslCertificate"
    /\ pc' = Then(pc, props)
    /\ UNCHANGED <<props, region, bucket, bucketDeployment, hostedZone,
                   originAccessIdentity, distribution, dnsRecord>>

createOriginAccessIdentity ==
    /\ pc = "createOriginAccessIdentity"
    /\ children' =
          ("Oai" :> OriginAccessIdentity(children[bucket].bucketName))
          @@ [children EXCEPT ![bucket] = grantRead(@, "Oai")]
    /\ log' = Append(log, "Oai")
    /\ originAccessIdentity' = "Oai"
    /\ pc' = Then(pc, props)
    /\ UNCHANGED <<props, region, bucket, bucketDeployment, hostedZone,
                   certificate, distribution, dnsRecord>>

createCloudFrontWebDistribution ==
    /\ pc = "createCloudFrontWebDistribution"
    /\ children' = Construct("CloudfrontDistribution",
                             CloudFrontWebDistribution(bucket,
                                                       originAccessIdentity,
                                                       certificate,
                                                       props.domainName,
                                                       indexDocument(props),
                                                       props.webACLId))
    /\ log' = Append(log, "CloudfrontDistribution")
    /\ distribution' = "CloudfrontDistribution"
    /\ pc' = Then(pc, props)
    /\ UNCHANGED <<props, region, bucket, bucketDeployment, hostedZone,
                   certificate, originAccessIdentity, dnsRecord>>

createARecord ==
    /\ pc = "createARecord"
    /\ children' = Construct("DnsARecord",
                             ARecord(hostedZone, props.domainName, distribution))
    /\ log' = Append(log, "DnsARecord")
    /\ dnsRecord' = "DnsARecord"
    /\ pc' = Then(pc, props)
    /\ UNCHANGED <<props, region, bucket, bucketDeployment, hostedZone,
                   certificate, originAccessIdentity, distribution>>

Next ==
    \/ createBucket
    \/ createBucketDeployment
    \/ lookupHostedZone
    \/ createCertificate
    \/ createOriginAccessIdentity
    \/ createCloudFrontWebDistribution
    \/ createARecord

Spec == Init /\ [][Next]_vars

(***************************************************************************)
(* The zone-name derivation on its own, over longer domain names           *)
(***************************************************************************)
InitZone ==
    /\ props \in [domainName : Str(MaxZoneLen),
                  websiteDistPath : {undefined},
                  indexDocument : {undefined},
                  bucketName : {undefined},
                  webACLId : {undefined}]
    /\ region = "eu-west-1"
    /\ Fresh

NextZone ==
    \/ createBucket
    \/ lookupHostedZone

SpecZone == InitZone /\ [][NextZone]_vars

(***************************************************************************)
(* Properties                                                              *)
(***************************************************************************)
OfType(t) == {id \in DOMAIN children : children[id].type = t}

\* C1: with bucketName omitted the bucket's name is "website." followed by
\* domainName; with bucketName supplied it is the supplied value unchanged.
C1_BucketName ==
    bucket # NoRef =>
        /\ props.bucketName = undefined =>
              children[bucket].bucketName = WebsitePrefix \o props.domainName
        /\ props.bucketName # undefined =>
              children[bucket].bucketName = Value(props.bucketName)

C1_Witness ==
    /\ bucket # NoRef
    /\ props.bucketName = undefined
    /\ props.domainName = <<"a", ".", "a">>
    /\ children[bucket].bucketName =
          <<"w", "e", "b", "s", "i", "t", "e", ".", "a", ".", "a">>

FullyBlocked(b) ==
    /\ b.blockPublicAccess.blockPublicAcls
    /\ b.blockPublicAccess.blockPublicPolicy
    /\ b.blockPublicAccess.ignorePublicAcls
    /\ b.blockPublicAccess.restrictPublicBuckets

\* C2: for every input the bucket has all four public-access blocks enabled,
\* in every state of the composition and still at its end, after the upload
\* and the read grant.
C2_PublicAccessBlocked ==
    /\ \A id \in OfType("Bucket") : FullyBlocked(children[id])
    /\ pc # "createBucket" => bucket \in OfType("Bucket")

C2_Witness ==
    /\ pc = "done"
    /\ bucketDeployment # NoRef
    /\ children[bucket].grants # {}
    /\ FullyBlocked(children[bucket])

HasDot(s) == \E i \in 1..Len(s) : s[i] = Dot
HasLineTerminator(s) == \E i \in 1..Len(s) : IsLineTerminator(s[i])
AfterFirstDot(s) == SubSeq(s, Min({i \in 1..Len(s) : s[i] = Dot}) + 1, Len(s))
WithoutLeftmostLabel(s) == IF HasDot(s) THEN AfterFirstDot(s) ELSE <<>>

\* C3 as stated: for every domainName the name passed to the hosted-zone
\* lookup is domainName without its leftmost label and the dot after it.
C3_Original ==
    hostedZone # NoRef =>
        children[hostedZone].domainName = WithoutLeftmostLabel(props.domainName)

\* C3 as amended: for a domainName that contains a dot and no line
\* terminator the name passed to the hosted-zone lookup is everything after
\* the first dot; a domainName without a dot is passed unchanged.
C3_ZoneName ==
    hostedZone # NoRef =>
        /\ (HasDot(props.domainName) /\ ~HasLineTerminator(props.domainName)) =>
              children[hostedZone].domainName = AfterFirstDot(props.domainName)
        /\ ~HasDot(props.domainName) =>
              children[hostedZone].domainName = props.domainName

C3_Witness ==
    /\ hostedZone # NoRef
    /\ props.domainName = <<"a", ".", "a", ".", "a", ".", "a">>
    /\ children[hostedZone].domainName = <<"a", ".", "a", ".", "a">>

SuppliedOrIndexHtml ==
    IF props.indexDocument = undefined
    THEN <<"i", "n", "d", "e", "x", ".", "h", "t", "m", "l">>
    ELSE Value(props.indexDocument)

\* C5: the distribution has exactly one custom error mapping, 404 to 200 with
\* page path "/" followed by the index document and a 300 second minimum
\* cache TTL; the index document is the supplied one or "index.html", and is
\* also the bucket's index document and the distribution's default root object.
C5_ErrorMapping ==
    distribution # NoRef =>
        /\ Len(children[distribution].errorConfigurations) = 1
        /\ children[distribution].errorConfigurations[1] =
              [errorCode |-> 404, errorCachingMinTtl |-> 300,
               responseCode |-> 200,
               responsePagePath |-> <<"/">> \o SuppliedOrIndexHtml]
        /\ children[distribution].defaultRootObject = SuppliedOrIndexHtml
        /\ children[bucket].websiteIndexDocument = SuppliedOrIndexHtml

C5_Witness ==
    /\ distribution # NoRef
    /\ props.indexDocument = undefined
    /\ children[distribution].errorConfigurations[1].responsePagePath =
          <<"/", "i", "n", "d", "e", "x", ".", "h", "t", "m", "l">>

UploadDecided == pc \notin {"createBucket", "createBucketDeployment"}

OneUploadOf(path) ==
    /\ OfType("BucketDeployment") = {bucketDeployment}
    /\ children[bucketDeployment].sources = <<path>>
    /\ children[bucketDeployment].destinationBucket = bucket
    /\ bucket \in OfType("Bucket")
    /\ children[bucketDeployment].cacheControl = <<"no-cache">>

NoUpload ==
    /\ OfType("BucketDeployment") = {}
    /\ bucketDeployment = NoRef

\* C6 as stated: an upload exists if and only if websiteDistPath is supplied.
C6_Original ==
    UploadDecided =>
        IF props.websiteDistPath # undefined
        THEN OneUploadOf(Value(props.websiteDistPath))
        ELSE NoUpload

\* C6 as amended: an upload exists if and only if websiteDistPath is supplied
\* and is not the empty string; then it is the only upload, its single source
\* is that path, its destination the bucket of the composition and its
\* cache-control no-cache; otherwise there is no upload and the
\* bucketDeployment output is undefined.
C6_Upload ==
    UploadDecided =>
        IF props.websiteDistPath \notin {undefined, {<<>>}}
        THEN OneUploadOf(Value(props.websiteDistPath))
        ELSE NoUpload

C6_Witness ==
    /\ pc = "done"
    /\ props.websiteDistPath = {<<"d">>}
    /\ bucketDeployment = "BucketDeployment"
    /\ children[bucketDeployment].sources = <<(<<"d">>)>>

\* C7: for every input and every region of the enclosing stack the
\* certificate's domain name is the input domainName, its hosted zone is the
\* zone of the DNS record, its region is us-east-1, and the distribution's
\* alias uses that certificate with the single name domainName.
C7_Certificate ==
    pc = "done" =>
        /\ certificate \in OfType("DnsValidatedCertificate")
        /\ children[certificate].domainName = props.domainName
        /\ children[certificate].hostedZone = children[dnsRecord].zone
        /\ children[certificate].hostedZone \in OfType("HostedZone")
        /\ children[certificate].region = "us-east-1"
        /\ children[distribution].aliasConfiguration.acmCertRef = certificate
        /\ children[distribution].aliasConfiguration.names = <<props.domainName>>

C7_Witness ==
    /\ pc = "done"
    /\ region = "eu-west-1"
    /\ props.domainName = <<"a", ".", "a">>
    /\ children[certificate].region = "us-east-1"
    /\ children[certificate].domainName = <<"a", ".", "a">>

Constructed(id) == \E i \in 1..Len(log) : log[i] = id
Position(id) == CHOOSE i \in 1..Len(log) : log[i] = id
Before(a, b) == Constructed(b) => (Constructed(a) /\ Position(a) < Position(b))

References(d) ==
    CASE d.type = "BucketDeployment" -> {d.destinationBucket}
      [] d.type = "DnsValidatedCertificate" -> {d.hostedZone}
      [] d.type = "CloudFrontWebDistribution" ->
            {d.originConfigs[1].s3OriginSource.s3BucketSource,
             d.originConfigs[1].s3OriginSource.originAccessIdentity,
             d.aliasConfiguration.acmCertRef}
      [] d.type = "ARecord" -> {d.zone, d.target.alias}
      [] OTHER -> {}

\* C9: each descriptor is constructed after every descriptor it references:
\* the upload after the bucket, the certificate after the hosted-zone lookup,
\* the access identity after the bucket, the distribution after the bucket,
\* the certificate and the access identity, the DNS record after the
\* hosted-zone lookup and the distribution; and the composition ends with the
\* bucket, distribution and DNS record outputs set.
C9_DependencyOrder ==
    /\ Before("S3Bucket", "BucketDeployment")
    /\ Before("HostedZone", "SslCertificate")
    /\ Before("S3Bucket", "Oai")
    /\ Before("S3Bucket", "CloudfrontDistribution")
    /\ Before("SslCertificate", "CloudfrontDistribution")
    /\ Before("Oai", "CloudfrontDistribution")
    /\ Before("HostedZone", "DnsARecord")
    /\ Before("CloudfrontDistribution", "DnsARecord")
    /\ \A id \in DOMAIN children : References(children[id]) \subseteq DOMAIN children
    /\ pc = "done" =>
          /\ bucket \in OfType("Bucket")
          /\ distribution \in OfType("CloudFrontWebDistribution")
          /\ dnsRecord \in OfType("ARecord")

C9_Witness ==
    /\ pc = "done"
    /\ log = <<"S3Bucket", "BucketDeployment", "HostedZone", "SslCertificate",
               "Oai", "CloudfrontDistribution", "DnsARecord">>

OnceOnly(l) == \A i, j \in 1..Len(l) : l[i] = l[j] => i = j

\* C10 as stated: every descriptor is constructed exactly once and no later
\* step changes any field or attached policy of an earlier descriptor.
C10_Original ==
    [][/\ OnceOnly(log')
       /\ \A id \in DOMAIN children :
             id \in DOMAIN children' /\ children'[id] = children[id]]_vars

\* C10 as amended: every descriptor is constructed exactly once and no later
\* step changes an earlier descriptor, except that the access-identity step
\* adds a read grant for the new identity to the bucket's policy.
C10_ConstructedOnce ==
    [][/\ OnceOnly(log')
       /\ \A id \in DOMAIN children :
             /\ id \in DOMAIN children'
             /\ \/ children'[id] = children[id]
                \/ /\ pc = "createOriginAccessIdentity"
                   /\ id = bucket
                   /\ children'[id] =
                         [children[id] EXCEPT !.grants =
                             @ \cup {[principal |-> originAccessIdentity',
                                      actions |-> "read"]}]]_vars

C10_Witness ==
    /\ pc = "done"
    /\ Len(log) = 7
    /\ OnceOnly(log)
    /\ children[bucket].grants # {}

====
